---- MODULE Spec2Model ----
(***************************************************************************)
(* Model of client.py: the watchdog handler ArchiveEventHandler.on_created *)
(* and the helpers it calls (md5sum, check_md5_in_db, add_file_to_db,      *)
(* upload_file_to_gdrive, add_metadata_to_file).                           *)
(*                                                                         *)
(* The catalog (HTTP API), Google Drive and the local file system are the  *)
(* environment.  They are modelled by the state the calls of client.py     *)
(* read and write: the catalog is the list of its records (the id of a     *)
(* record is its position), Drive is the list of uploaded files, the file  *)
(* system is the set of files.  Every external call takes its outcome from *)
(* the handler's input `fault`: at most one environment fault per event.   *)
(* An HTTP error response (non-2xx) is a JSON body without the keys of a   *)
(* good answer; `requests` returns it like any other response.             *)
(***************************************************************************)
EXTENDS Integers, Sequences, FiniteSets, TLC

VARIABLES
    catalog,    \* the records of the catalog service, record i has id i
    drive,      \* the files uploaded to Google Drive, file i has id <<"gd", i>>
    fs,         \* the local files: a set of [path, content]
    events,     \* number of creation events handled so far
    last,       \* what the handler did for the latest event
    regCalls,   \* for every fingerprint, the add_file_to_db calls made with it
    hcontent,   \* md5sum study: the byte content of the stream
    hbs1,       \* md5sum study: first block size
    hbs2,       \* md5sum study: second block size
    hrun1,      \* md5sum study: result of md5sum(hcontent, hbs1)
    hrun2       \* md5sum study: result of md5sum(hcontent, hbs2)

vars == <<catalog, drive, fs, events, last, regCalls,
          hcontent, hbs1, hbs2, hrun1, hrun2>>

mainVars == <<catalog, drive, fs, events, last, regCalls>>
hashVars == <<hcontent, hbs1, hbs2, hrun1, hrun2>>

(***************************************************************************)
(* Bounds of the model.                                                    *)
(***************************************************************************)
MaxEvents == 3
MaxLen == 4
MaxBlock == 3

Bytes == {0, 1}

RECURSIVE ByteSeqs(_)
ByteSeqs(n) ==
    IF n = 0 THEN {<<>>}
    ELSE LET shorter == ByteSeqs(n - 1)
         IN  shorter \cup {Append(s, b) : s \in {t \in shorter : Len(t) = n - 1}, b \in Bytes}

Min(a, b) == IF a < b THEN a ELSE b

RECURSIVE Flatten(_)
Flatten(blocks) ==
    IF blocks = <<>> THEN <<>> ELSE Head(blocks) \o Flatten(Tail(blocks))

(***************************************************************************)
(* md5sum (client.py 18-29).                                               *)
(***************************************************************************)
\* afile.read(blocksize) at stream position pos: at most blocksize bytes,
\* fewer at the end of the stream, none after it.
read(afile, pos, blocksize) ==
    SubSeq(afile, pos + 1, Min(pos + blocksize, Len(afile)))

\* hashlib.md5(): the state of a fresh hasher.  The digest is modelled by a
\* small order-sensitive rolling hash of the bytes fed so far.
md5_new == 7

RECURSIVE md5_update(_, _)
md5_update(hasher, buf) ==
    IF buf = <<>> THEN hasher
    ELSE md5_update((hasher * 31 + Head(buf) + 1) % 1009, Tail(buf))

hexdigest(hasher) == hasher

\* The while loop of md5sum: `fed` is the list of the blocks handed to
\* hasher.update, kept to state what the hasher was fed.
RECURSIVE md5sum_loop(_, _, _, _, _)
md5sum_loop(afile, pos, blocksize, hasher, fed) ==
    LET buf == read(afile, pos, blocksize)
    IN  IF Len(buf) > 0
        THEN md5sum_loop(afile, pos + Len(buf), blocksize,
                         md5_update(hasher, buf), Append(fed, buf))
        ELSE [digest |-> hexdigest(hasher), fed |-> fed, pos |-> pos]

\* A loop that stops at the first short block, never feeding it.
RECURSIVE md5sum_loop_short(_, _, _, _, _)
md5sum_loop_short(afile, pos, blocksize, hasher, fed) ==
    LET buf == read(afile, pos, blocksize)
    IN  IF Len(buf) = blocksize
        THEN md5sum_loop_short(afile, pos + Len(buf), blocksize,
                               md5_update(hasher, buf), Append(fed, buf))
        ELSE [digest |-> hexdigest(hasher), fed |-> fed, pos |-> pos]

md5sum_run_short(afile, blocksize) ==
    md5sum_loop_short(afile, 0, blocksize, md5_new, <<>>)

md5sum_run(afile, blocksize) ==
    md5sum_loop(afile, 0, blocksize, md5_new, <<>>)

md5sum(afile, blocksize) == md5sum_run(afile, blocksize).digest

DefaultBlocksize == 65536


(***************************************************************************)
(* Paths and MIME types.  A path is [dir, stem, ext]; a MIME type is the   *)
(* sequence of its characters.                                             *)
(***************************************************************************)
\* The directories of the settings module: four different directories, the
\* clone and the broken directory existing when the handler runs.
INBOX_DIR == "inbox"
ARCHIVE_DIR == "archive"
CLONE_DIR == "clone"
BROKEN_DIR == "broken"

\* The names of the files that appear in the inbox: <<stem, extension>>.
Names == {<<"a", ".mp4">>, <<"b", ".mp4">>, <<"a", ".txt">>, <<"a", ".xyz">>}
DirNames == {"d"}
Contents == {<<0>>, <<0, 1>>}

video_mp4 == <<"v", "i", "d", "e", "o", "/", "m", "p", "4">>
text_plain == <<"t", "e", "x", "t", "/", "p", "l", "a", "i", "n">>

\* mimetypes.guess_type(path)[0]: looked up by the extension; None when the
\* extension is not in the table.
guess_type(path) ==
    IF path.ext = ".mp4" THEN [none |-> FALSE, mime |-> video_mp4]
    ELSE IF path.ext = ".txt" THEN [none |-> FALSE, mime |-> text_plain]
    ELSE [none |-> TRUE, mime |-> <<>>]

\* Python's `sub in s` on strings.
Contains(sub, s) ==
    \E i \in 1..(Len(s) - Len(sub) + 1) : SubSeq(s, i, i + Len(sub) - 1) = sub

\* file_is_a_video with the else branch of line 153 answering True.
file_is_a_video_else_true(path) ==
    LET file_mime == guess_type(path)
    IN  IF ~file_mime.none /\ file_mime.mime # <<>>
        THEN Contains(<<"v", "i", "d", "e", "o">>, file_mime.mime)
        ELSE TRUE

\* Lines 149-153: file_is_a_video.
file_is_a_video(path) ==
    LET file_mime == guess_type(path)
    IN  IF ~file_mime.none /\ file_mime.mime # <<>>
        THEN Contains(<<"v", "i", "d", "e", "o">>, file_mime.mime)
        ELSE FALSE

basename(path) == [stem |-> path.stem, ext |-> path.ext]
splitext_ext(path) == path.ext
join(dir, name) == [dir |-> dir, stem |-> name.stem, ext |-> name.ext]

(***************************************************************************)
(* The world the handler acts on: w = [catalog, drive, fs, log].  log is   *)
(* the list of the external calls made while handling one event, each with *)
(* its outcome.  A call returns [w, raised, value].                        *)
(***************************************************************************)
Faults == {"none", "open", "exists_unreachable", "exists_non2xx",
           "register_unreachable", "register_non2xx", "register_lost",
           "move", "gd_list", "gd_upload", "get_unreachable", "get_non2xx",
           "gd_fetch", "put_unreachable", "put_non2xx", "gd_property"}

Logged(w, op, res) == [w EXCEPT !.log = Append(@, [op |-> op, res |-> res])]

Raise(w) == [w |-> w, raised |-> TRUE, value |-> 0]
Return(w, v) == [w |-> w, raised |-> FALSE, value |-> v]

ErrorBody == [detail |-> "error"]

NullRemote == <<"null">>
GdId(n) == <<"gd", n>>
LinkOf(n) == <<"link", n>>

\* The record the catalog stores for the form fields of a POST or PUT: a
\* field the request does not carry is null.
StoredRecord(id, payload) ==
    LET field(k, null) == IF k \in DOMAIN payload THEN payload[k] ELSE null
    IN  [id |-> id,
         filePath |-> field("filePath", [dir |-> "null", stem |-> "", ext |-> ""]),
         md5Checksum |-> field("md5Checksum", -1),
         googleDriveFileId |-> field("googleDriveFileId", NullRemote),
         fileSize |-> field("fileSize", -1),
         webContentLink |-> field("webContentLink", NullRemote),
         mimeType |-> field("mimeType", <<>>)]

Known(cat, md5) == \E i \in 1..Len(cat) : cat[i].md5Checksum = md5

\* check_md5_in_db reading a key the answer does not carry as false.
check_md5_in_db_never(w, md5, fault) ==
    IF fault = "exists_unreachable"
    THEN Raise(Logged(w, "Exists", "unreachable"))
    ELSE IF fault = "exists_non2xx" THEN Raise(Logged(w, "Exists", "non2xx"))
    ELSE Return(Logged(w, "Exists", "ok"), FALSE)

\* Lines 32-39.
check_md5_in_db(w, md5, fault) ==
    IF fault = "exists_unreachable"
    THEN Raise(Logged(w, "Exists", "unreachable"))
    ELSE LET body == IF fault = "exists_non2xx" THEN ErrorBody
                     ELSE [status |-> Known(w.catalog, md5)]
             w1 == Logged(w, "Exists", IF fault = "exists_non2xx" THEN "non2xx" ELSE "ok")
         IN  IF "status" \in DOMAIN body THEN Return(w1, body.status) ELSE Raise(w1)

\* Lines 42-52.
add_file_to_db(w, file_path, md5, fault) ==
    LET payload == [md5Checksum |-> md5, filePath |-> file_path]
        id == Len(w.catalog) + 1
        created == [w EXCEPT !.catalog = Append(@, StoredRecord(id, payload))]
    IN  IF fault = "register_unreachable"
        THEN Raise(Logged(w, "Register", "unreachable"))
        ELSE IF fault = "register_lost"
        THEN Raise(Logged(created, "Register", "lost"))
        ELSE LET body == IF fault = "register_non2xx" THEN ErrorBody ELSE [id |-> id]
                 w1 == IF fault = "register_non2xx"
                       THEN Logged(w, "Register", "non2xx")
                       ELSE Logged(created, "Register", "ok")
             IN  IF "id" \in DOMAIN body THEN Return(w1, body.id) ELSE Raise(w1)

ContentAt(files, path) == (CHOOSE f \in files : f.path = path).content
Exists(files, path) == \E f \in files : f.path = path

\* Lines 55-73.
upload_file_to_gdrive(w, file_path, fault) ==
    IF fault = "gd_list"
    THEN Raise(Logged(w, "ListFolder", "unreachable"))
    ELSE LET w1 == Logged(w, "ListFolder", "ok")
             n == Len(w1.drive) + 1
             gfile == [id |-> GdId(n),
                       title |-> basename(file_path),
                       fileSize |-> Len(ContentAt(w1.fs, file_path)),
                       webContentLink |-> LinkOf(n),
                       mimeType |-> guess_type(file_path).mime,
                       properties |-> {}]
         IN  IF fault = "gd_upload" \/ ~Exists(w1.fs, file_path)
             THEN Raise(Logged(w1, "Upload", "unreachable"))
             ELSE Return(Logged([w1 EXCEPT !.drive = Append(@, gfile)], "Upload", "ok"),
                         gfile.id)

\* GET FILEDETAIL_URL % file_id followed by .json(): the record, or the
\* error body of a non-2xx answer (the id is unknown, or the service fails).
\* An error answer that is not JSON makes .json() raise at once, as an
\* unreachable service does ("get_unreachable").
FileDetailBody(cat, file_id, fault) ==
    IF fault = "get_non2xx" \/ file_id \notin 1..Len(cat) THEN ErrorBody
    ELSE cat[file_id]

\* The PUT payload of lines 96-110 given the read-back entry and the Drive
\* file.
MetadataPayload(file_db_entry, gfile) ==
    [googleDriveFileId |-> gfile.id,
     fileSize |-> gfile.fileSize,
     webContentLink |-> gfile.webContentLink,
     mimeType |-> gfile.mimeType,
     id |-> file_db_entry.id,
     filePath |-> file_db_entry.filePath,
     md5Checksum |-> file_db_entry.md5Checksum]

GdIndex(file_gdrive_id) == file_gdrive_id[2]

\* Lines 76-123.
add_metadata_to_file(w, file_id, file_gdrive_id, fault) ==
    IF fault = "get_unreachable"
    THEN Raise(Logged(w, "ReadBack", "unreachable"))
    ELSE
    LET file_db_entry == FileDetailBody(w.catalog, file_id, fault)
        w1 == Logged(w, "ReadBack", IF "id" \in DOMAIN file_db_entry THEN "ok" ELSE "non2xx")
    IN  IF fault = "gd_fetch" \/ GdIndex(file_gdrive_id) \notin 1..Len(w1.drive)
        THEN Raise(Logged(w1, "FetchMetadata", "unreachable"))
        ELSE
        LET gfile == w1.drive[GdIndex(file_gdrive_id)]
            w2 == Logged(w1, "FetchMetadata", "ok")
        IN  IF ~({"id", "filePath", "md5Checksum"} \subseteq DOMAIN file_db_entry)
            THEN Raise(w2)
            ELSE
            LET payload == MetadataPayload(file_db_entry, gfile)
            IN  IF fault = "put_unreachable"
                THEN Raise(Logged(w2, "UpdateMetadata", "unreachable"))
                ELSE
                \* r = requests.put(...): r is never looked at.
                LET w3 == IF fault = "put_non2xx"
                          THEN Logged(w2, "UpdateMetadata", "non2xx")
                          ELSE Logged([w2 EXCEPT !.catalog[file_id] =
                                           StoredRecord(file_id, payload)],
                                      "UpdateMetadata", "ok")
                IN  IF fault = "gd_property"
                    THEN Raise(Logged(w3, "SetProperty", "unreachable"))
                    ELSE Return(Logged([w3 EXCEPT
                                   !.drive[GdIndex(file_gdrive_id)].properties =
                                       @ \cup {[key |-> "filePath",
                                                value |-> file_db_entry.filePath,
                                                visibility |-> "PUBLIC"]}],
                                   "SetProperty", "ok"), 0)

\* shutil.move(src, dst) with dst a file path (line 163): a rename that
\* replaces what is at dst.
move_to_path(w, src, dst, fault) ==
    IF fault = "move" \/ ~Exists(w.fs, src)
    THEN Raise(Logged(w, "Move", "ioerror"))
    ELSE Return(Logged([w EXCEPT !.fs =
                   {f \in @ : f.path \notin {src, dst}}
                       \cup {[path |-> dst, content |-> ContentAt(w.fs, src)]}],
                   "Move", "ok"), 0)

\* shutil.move(src, dst) with dst an existing directory (lines 174, 178):
\* the file goes to dst/basename(src); shutil raises Error when that path
\* already exists.
move_into_dir(w, src, dst, fault) ==
    LET real_dst == join(dst, basename(src))
    IN  IF Exists(w.fs, real_dst)
        THEN Raise(Logged(w, "Move", "dest_exists"))
        ELSE move_to_path(w, src, real_dst, fault)

\* The chain with line 158 testing only file_is_a_video.
Branch_ignores_dedup(is_video, in_db) ==
    IF is_video THEN {"Archive"}
    ELSE IF is_video /\ in_db THEN {"Duplicate"}
    ELSE IF ~is_video THEN {"Reject"}
    ELSE {}

\* The chain with line 158 testing only `not file_in_db`.
Branch_ignores_video(is_video, in_db) ==
    IF ~in_db THEN {"Archive"}
    ELSE IF is_video /\ in_db THEN {"Duplicate"}
    ELSE IF ~is_video THEN {"Reject"}
    ELSE {}

\* The if/elif chain of lines 158, 173, 177: the branches entered.
Branch(is_video, in_db) ==
    IF is_video /\ ~in_db THEN {"Archive"}
    ELSE IF is_video /\ in_db THEN {"Duplicate"}
    ELSE IF ~is_video THEN {"Reject"}
    ELSE {}

ToStr(n) == ToString(n)

NoLocals == [hashed |-> FALSE, md5 |-> -1, checked |-> FALSE, in_db |-> FALSE,
             branch |-> {}, file_id |-> 0, gdrive |-> 0, enrich |-> "no"]

Outcome(r, locals) == [w |-> r.w, raised |-> r.raised, locals |-> locals]

\* The archive branch uploading the file before it is moved and renamed.
ArchiveBranch_upload_first(w, file_path, file_md5, locals, fault) ==
    LET reg == add_file_to_db(w, file_path, file_md5, fault)
    IN  IF reg.raised THEN Outcome(reg, locals)
        ELSE
        LET file_id == reg.value
            l1 == [locals EXCEPT !.file_id = file_id]
            file_archived_name == [stem |-> ToStr(file_id), ext |-> splitext_ext(file_path)]
            file_archived_path == join(ARCHIVE_DIR, file_archived_name)
            up == upload_file_to_gdrive(reg.w, file_path, fault)
        IN  IF up.raised THEN Outcome(up, l1)
            ELSE
            LET l2 == [l1 EXCEPT !.gdrive = GdIndex(up.value)]
                mv == move_to_path(up.w, file_path, file_archived_path, fault)
            IN  IF mv.raised THEN Outcome(mv, l2)
                ELSE
                LET md == add_metadata_to_file(mv.w, file_id, up.value, fault)
                IN  Outcome(md, [l2 EXCEPT !.enrich =
                                     IF md.raised THEN "raised" ELSE "returned"])

\* Lines 158-171, entered with file_is_a_video and not file_in_db.
ArchiveBranch(w, file_path, file_md5, locals, fault) ==
    LET reg == add_file_to_db(w, file_path, file_md5, fault)
    IN  IF reg.raised THEN Outcome(reg, locals)
        ELSE
        LET file_id == reg.value
            l1 == [locals EXCEPT !.file_id = file_id]
            file_ext == splitext_ext(file_path)
            file_archived_name == [stem |-> ToStr(file_id), ext |-> file_ext]
            file_archived_path == join(ARCHIVE_DIR, file_archived_name)
            mv == move_to_path(reg.w, file_path, file_archived_path, fault)
        IN  IF mv.raised THEN Outcome(mv, l1)
            ELSE
            LET up == upload_file_to_gdrive(mv.w, file_archived_path, fault)
            IN  IF up.raised THEN Outcome(up, l1)
                ELSE
                LET file_gdrive_id == up.value
                    l2 == [l1 EXCEPT !.gdrive = GdIndex(file_gdrive_id)]
                    md == add_metadata_to_file(up.w, file_id, file_gdrive_id, fault)
                IN  Outcome(md, [l2 EXCEPT !.enrich =
                                     IF md.raised THEN "raised" ELSE "returned"])

\* Lines 145-180: on_created for a file event.
on_created(w, file_path, fault) ==
    IF fault = "open" \/ ~Exists(w.fs, file_path)
    THEN Outcome(Raise(Logged(w, "Open", "ioerror")), NoLocals)
    ELSE
    LET file_md5 == md5sum(ContentAt(w.fs, file_path), DefaultBlocksize)
        l0 == [NoLocals EXCEPT !.hashed = TRUE, !.md5 = file_md5]
        chk == check_md5_in_db(Logged(w, "Open", "ok"), file_md5, fault)
    IN  IF chk.raised THEN Outcome(chk, l0)
        ELSE
        LET file_in_db == chk.value
            is_video == file_is_a_video(file_path)
            taken == Branch(is_video, file_in_db)
            l1 == [l0 EXCEPT !.checked = TRUE, !.in_db = file_in_db, !.branch = taken]
        IN  IF "Archive" \in taken
            THEN ArchiveBranch(chk.w, file_path, file_md5, l1, fault)
            ELSE IF "Duplicate" \in taken
            THEN Outcome(move_into_dir(chk.w, file_path, CLONE_DIR, fault), l1)
            ELSE IF "Reject" \in taken
            THEN Outcome(move_into_dir(chk.w, file_path, BROKEN_DIR, fault), l1)
            ELSE Outcome(Return(chk.w, 0), l1)

(***************************************************************************)
(* The program: one creation event at a time, handled to completion.       *)
(***************************************************************************)
Digests == {md5sum(c, DefaultBlocksize) : c \in Contents}

NoPath == [dir |-> "", stem |-> "", ext |-> ""]
NoRun == [digest |-> -1, fed |-> <<>>, pos |-> -1]

Calls(log, op) == {i \in 1..Len(log) : log[i].op = op}

HashIdle ==
    /\ hcontent = <<>>
    /\ hbs1 = 1
    /\ hbs2 = 1
    /\ hrun1 = NoRun
    /\ hrun2 = NoRun

Init ==
    /\ catalog = <<>>
    /\ drive = <<>>
    /\ fs = {}
    /\ events = 0
    /\ last = [kind |-> "none", path |-> NoPath, log |-> <<>>, raised |-> FALSE,
               loc |-> NoLocals, content |-> <<>>, pre |-> <<>>]
    /\ regCalls = [d \in Digests |-> 0]
    /\ HashIdle

\* The watcher reports a new file inbox/<stem><ext> with the given content;
\* on_created handles it, the environment answering with `fault`.
FileCreated(stem, ext, content, fault) ==
    LET file_path == [dir |-> INBOX_DIR, stem |-> stem, ext |-> ext]
        w0 == [catalog |-> catalog, drive |-> drive,
               fs |-> fs \cup {[path |-> file_path, content |-> content]},
               log |-> <<>>]
    IN  /\ events < MaxEvents
        /\ ~Exists(fs, file_path)
        /\ \E r \in {on_created(w0, file_path, fault)} :
              /\ catalog' = r.w.catalog
              /\ drive' = r.w.drive
              /\ fs' = r.w.fs
              /\ last' = [kind |-> "file", path |-> file_path, log |-> r.w.log,
                          raised |-> r.raised, loc |-> r.locals,
                          content |-> content, pre |-> catalog]
              /\ regCalls' = IF Calls(r.w.log, "Register") # {}
                             THEN [regCalls EXCEPT ![r.locals.md5] = @ + 1]
                             ELSE regCalls
        /\ events' = events + 1
        /\ UNCHANGED hashVars

\* The watcher reports a new directory: line 145 skips it.
DirCreated(stem) ==
    /\ events < MaxEvents
    /\ events' = events + 1
    /\ last' = [kind |-> "dir", path |-> [dir |-> INBOX_DIR, stem |-> stem, ext |-> ""],
                log |-> <<>>, raised |-> FALSE, loc |-> NoLocals,
                content |-> <<>>, pre |-> catalog]
    /\ UNCHANGED <<catalog, drive, fs, regCalls>>
    /\ UNCHANGED hashVars

Next ==
    \/ \E name \in Names, content \in Contents, fault \in Faults :
           FileCreated(name[1], name[2], content, fault)
    \/ \E stem \in DirNames : DirCreated(stem)

Spec == Init /\ [][Next]_vars

(***************************************************************************)
(* md5sum on its own: any content, any two block sizes.                    *)
(***************************************************************************)
InitHash ==
    /\ catalog = <<>>
    /\ drive = <<>>
    /\ fs = {}
    /\ events = 0
    /\ last = [kind |-> "none", path |-> NoPath, log |-> <<>>, raised |-> FALSE,
               loc |-> NoLocals, content |-> <<>>, pre |-> <<>>]
    /\ regCalls = [d \in Digests |-> 0]
    /\ hcontent \in ByteSeqs(MaxLen)
    /\ hbs1 \in 1..MaxBlock
    /\ hbs2 \in 1..MaxBlock
    /\ hrun1 = NoRun
    /\ hrun2 = NoRun

HashTwice ==
    /\ hrun1 = NoRun
    /\ hrun1' = md5sum_run(hcontent, hbs1)
    /\ hrun2' = md5sum_run(hcontent, hbs2)
    /\ UNCHANGED <<hcontent, hbs1, hbs2>>
    /\ UNCHANGED mainVars

NextHash == HashTwice

SpecHash == InitHash /\ [][NextHash]_vars

(***************************************************************************)
(* Vocabulary of the properties.                                           *)
(***************************************************************************)
CatalogOps == {"Exists", "Register", "ReadBack", "UpdateMetadata"}
StoreOps == {"ListFolder", "Upload", "FetchMetadata", "SetProperty"}

FileEvent == last.kind = "file"
Called(op) == Calls(last.log, op) # {}
OpsOf(log) == [i \in 1..Len(log) |-> log[i].op]

\* An external call of the latest event was answered with an environment
\* fault (the service unreachable, an error response, an I/O error).
EnvFault == \E i \in 1..Len(last.log) : last.log[i].res \notin {"ok", "dest_exists"}

\* The three kinds of mimeGuess.
MimeUndetermined(path) == guess_type(path).none
MimeVideo(path) ==
    ~guess_type(path).none /\ Contains(<<"v", "i", "d", "e", "o">>, guess_type(path).mime)
MimeNonVideo(path) == ~MimeUndetermined(path) /\ ~MimeVideo(path)

\* The dedup check of the latest event returned Known / Unknown.
DedupKnown == last.loc.checked /\ last.loc.in_db
DedupUnknown == last.loc.checked /\ ~last.loc.in_db

\* The file of the latest event is at dir/name and no longer in the inbox.
EndsAt(dir, name) ==
    /\ [path |-> join(dir, name), content |-> last.content] \in fs
    /\ ~Exists(fs, last.path)

ArchivedName == [stem |-> ToStr(last.loc.file_id), ext |-> last.path.ext]

\* C1: over any sequence of file creation events, add_file_to_db is called
\* for a file if and only if a MIME type containing "video" was guessed for
\* it and check_md5_in_db returned false for its fingerprint; a directory
\* event makes no call at all.
C1_RegisterIffVideoUnknown ==
    /\ FileEvent => (Called("Register") <=> (MimeVideo(last.path) /\ DedupUnknown))
    /\ FileEvent => Cardinality(Calls(last.log, "Register")) <= 1
    /\ last.kind = "dir" => last.log = <<>>

C1_Witness ==
    /\ FileEvent /\ Called("Register") /\ events >= 2
    /\ MimeVideo(last.path) /\ DedupUnknown

\* C2: every pair (mimeGuess, dedupStatus) gets exactly one disposition:
\* video and Unknown -> Archive, video and Known -> Duplicate, a non-video or
\* undetermined MIME type with either dedup status -> Reject; a handler that
\* returns has put the file where its disposition says.
C2_DispositionTable ==
    (FileEvent /\ last.loc.checked) =>
        /\ Cardinality(last.loc.branch) = 1
        /\ (MimeVideo(last.path) /\ DedupUnknown) => last.loc.branch = {"Archive"}
        /\ (MimeVideo(last.path) /\ DedupKnown) => last.loc.branch = {"Duplicate"}
        /\ (MimeNonVideo(last.path) \/ MimeUndetermined(last.path))
               => last.loc.branch = {"Reject"}
        /\ ~last.raised =>
               /\ last.loc.branch = {"Archive"} => EndsAt(ARCHIVE_DIR, ArchivedName)
               /\ last.loc.branch = {"Duplicate"} => EndsAt(CLONE_DIR, basename(last.path))
               /\ last.loc.branch = {"Reject"} => EndsAt(BROKEN_DIR, basename(last.path))

C2_Witness ==
    /\ FileEvent /\ MimeUndetermined(last.path) /\ DedupKnown
    /\ last.loc.branch = {"Reject"} /\ ~last.raised

\* C3 as claimed: never two Register calls for the same fingerprint.
C3_NoTwoRegisterCalls ==
    \A d \in Digests : regCalls[d] <= 1

Records(cat, md5) == {i \in 1..Len(cat) : cat[i].md5Checksum = md5}

\* C3 amended: once a fingerprint is registered (its Register call created
\* the record), a later video file with the same content whose dedup check
\* returns is disposed as Duplicate and not registered again; the catalog
\* never holds two records (two Archive dispositions) for one fingerprint.
C3_AtMostOneArchivePerFingerprint ==
    /\ \A d \in Digests : Cardinality(Records(catalog, d)) <= 1
    /\ (FileEvent /\ MimeVideo(last.path) /\ last.loc.checked
            /\ Records(last.pre, last.loc.md5) # {})
           => (last.loc.branch = {"Duplicate"} /\ ~Called("Register"))

C3_Witness ==
    /\ FileEvent /\ last.loc.branch = {"Duplicate"} /\ ~last.raised
    /\ \E i \in Records(last.pre, last.loc.md5) :
           /\ last.pre[i].filePath # last.path
           /\ last.pre[i].googleDriveFileId # NullRemote

C5_DuplicateEndsInCloneDir ==
    (FileEvent /\ MimeVideo(last.path) /\ DedupKnown /\ ~EnvFault) =>
        /\ EndsAt(CLONE_DIR, basename(last.path))
        /\ catalog = last.pre
        /\ ~Called("Register") /\ ~Called("UpdateMetadata") /\ ~Called("Upload")

\* The part of C5 about calls, which holds with or without faults.
C5_DuplicateLeavesCatalog ==
    (FileEvent /\ MimeVideo(last.path) /\ DedupKnown) =>
        /\ catalog = last.pre
        /\ \A i \in 1..Len(last.log) :
               last.log[i].op \notin (CatalogOps \ {"Exists"}) \cup StoreOps
        /\ ~last.raised => EndsAt(CLONE_DIR, basename(last.path))

ArchiveSteps ==
    <<"Open", "Exists", "Register", "Move", "ListFolder", "Upload",
      "ReadBack", "FetchMetadata", "UpdateMetadata", "SetProperty">>

\* C6: for a video file with an Unknown fingerprint, every external call
\* succeeding, the handler makes in this order and once each: Register,
\* the move to archiveDir/<id><ext>, the upload of the moved file, the
\* enrichment with the id Register returned and the remote id the upload
\* returned; the catalog gains exactly one record and the file ends at
\* archiveDir/<id><ext>.
C6_ArchiveSequence ==
    (FileEvent /\ MimeVideo(last.path) /\ DedupUnknown /\ ~EnvFault) =>
        /\ OpsOf(last.log) = ArchiveSteps
        /\ ~last.raised
        /\ Len(catalog) = Len(last.pre) + 1
        /\ \A i \in 1..Len(last.pre) : catalog[i] = last.pre[i]
        /\ last.loc.file_id = Len(catalog)
        /\ catalog[last.loc.file_id].filePath = last.path
        /\ catalog[last.loc.file_id].md5Checksum = md5sum(last.content, DefaultBlocksize)
        /\ EndsAt(ARCHIVE_DIR, ArchivedName)
        /\ last.loc.gdrive = Len(drive)
        /\ drive[last.loc.gdrive].title = ArchivedName
        /\ drive[last.loc.gdrive].fileSize = Len(last.content)
        /\ catalog[last.loc.file_id].googleDriveFileId = GdId(last.loc.gdrive)
        /\ \E p \in drive[last.loc.gdrive].properties : p.value = last.path

C6_Witness ==
    /\ FileEvent /\ MimeVideo(last.path) /\ DedupUnknown /\ ~EnvFault
    /\ OpsOf(last.log) = ArchiveSteps
    /\ last.loc.file_id = 2

EnrichFields(rec, gfile) ==
    /\ rec.googleDriveFileId = gfile.id
    /\ rec.fileSize = gfile.fileSize
    /\ rec.webContentLink = gfile.webContentLink
    /\ rec.mimeType = gfile.mimeType

\* C7: after add_metadata_to_file completes, the record of the registered id
\* holds its original id, fingerprint and path and the remote id, size, link
\* and MIME type of the Drive file.
C7_EnrichMerge ==
    (FileEvent /\ last.loc.enrich = "returned") =>
        LET rec == catalog[last.loc.file_id]
        IN  /\ rec.id = last.loc.file_id
            /\ rec.filePath = last.path
            /\ rec.md5Checksum = last.loc.md5
            /\ EnrichFields(rec, drive[last.loc.gdrive])

\* What holds of the merge: when the PUT is answered 2xx the record is the
\* merge, and in every case the original fields are kept.
C7_MergeWhenStored ==
    (FileEvent /\ last.loc.file_id # 0 /\ last.loc.file_id <= Len(catalog)) =>
        LET rec == catalog[last.loc.file_id]
            stored == \E i \in Calls(last.log, "UpdateMetadata") : last.log[i].res = "ok"
        IN  /\ rec.id = last.loc.file_id
            /\ rec.filePath = last.path
            /\ rec.md5Checksum = last.loc.md5
            /\ stored => EnrichFields(rec, drive[last.loc.gdrive])
            /\ ~stored => rec.googleDriveFileId = NullRemote

\* C9: a failed read-back or a failed UpdateMetadata write (an unreachable
\* catalog or a non-2xx answer) makes add_metadata_to_file raise; neither
\* call is made twice.
C9_EnrichFailureSurfaced ==
    FileEvent =>
        /\ (\E i \in 1..Len(last.log) :
                /\ last.log[i].op \in {"ReadBack", "UpdateMetadata"}
                /\ last.log[i].res # "ok")
               => (last.raised /\ last.loc.enrich # "returned")
        /\ Cardinality(Calls(last.log, "ReadBack")) <= 1
        /\ Cardinality(Calls(last.log, "UpdateMetadata")) <= 1

\* What holds of C9: every failure other than a non-2xx answer to the PUT
\* is surfaced, and no call is repeated.
C9_SurfacedExceptPutStatus ==
    FileEvent =>
        /\ (\E i \in 1..Len(last.log) :
                /\ last.log[i].res \notin {"ok"}
                /\ ~(last.log[i].op = "UpdateMetadata" /\ last.log[i].res = "non2xx"))
               => last.raised
        /\ \A op \in CatalogOps \cup StoreOps : Cardinality(Calls(last.log, op)) <= 1

\* C10: a failed step is the last step of the handling of its file; when
\* Register succeeded and the upload failed, the file is at
\* archiveDir/<id><ext>, the record Register created is in the catalog
\* without remote fields and no enrichment call was made.
C10_FailureAborts ==
    FileEvent =>
        /\ \A i \in 1..Len(last.log) :
               last.log[i].res # "ok" => (i = Len(last.log) /\ last.raised)
        /\ (\E i \in 1..Len(last.log) :
                last.log[i].op \in {"ListFolder", "Upload"} /\ last.log[i].res # "ok")
               => /\ EndsAt(ARCHIVE_DIR, ArchivedName)
                  /\ Len(catalog) = Len(last.pre) + 1
                  /\ catalog[last.loc.file_id].googleDriveFileId = NullRemote
                  /\ catalog[last.loc.file_id].md5Checksum = last.loc.md5
                  /\ ~Called("ReadBack") /\ ~Called("UpdateMetadata")
                  /\ ~Called("SetProperty")

\* What holds of C10: the upload-failure case as claimed, and every failed
\* step is the last one except an error answer to the read-back or the PUT.
C10_AbortExceptUncheckedStatus ==
    FileEvent =>
        /\ \A i \in 1..Len(last.log) :
               (/\ last.log[i].res # "ok"
                /\ ~(last.log[i].op \in {"ReadBack", "UpdateMetadata"}
                        /\ last.log[i].res = "non2xx"))
                   => (i = Len(last.log) /\ last.raised)
        /\ (\E i \in 1..Len(last.log) :
                last.log[i].op \in {"ListFolder", "Upload"} /\ last.log[i].res # "ok")
               => /\ EndsAt(ARCHIVE_DIR, ArchivedName)
                  /\ Len(catalog) = Len(last.pre) + 1
                  /\ catalog[last.loc.file_id].googleDriveFileId = NullRemote
                  /\ catalog[last.loc.file_id].md5Checksum = last.loc.md5
                  /\ ~Called("ReadBack") /\ ~Called("UpdateMetadata")
                  /\ ~Called("SetProperty")

\* C8: for any content and any two positive block sizes md5sum feeds the
\* hasher every byte once and in order, in non-empty blocks of at most the
\* block size, stops at the end of the stream, and returns the same
\* fingerprint for both block sizes.
C8_BlockSizeIndependent ==
    hrun1 # NoRun =>
        /\ Flatten(hrun1.fed) = hcontent
        /\ Flatten(hrun2.fed) = hcontent
        /\ hrun1.pos = Len(hcontent) /\ hrun2.pos = Len(hcontent)
        /\ \A i \in 1..Len(hrun1.fed) : Len(hrun1.fed[i]) \in 1..hbs1
        /\ \A i \in 1..Len(hrun2.fed) : Len(hrun2.fed[i]) \in 1..hbs2
        /\ hrun1.digest = hrun2.digest
        /\ hrun1.digest = md5_update(md5_new, hcontent)

C8_Witness ==
    /\ hrun1 # NoRun
    /\ hbs1 = 2 /\ hbs2 = 3 /\ Len(hcontent) = 4
    /\ Len(hrun1.fed) = 2 /\ Len(hrun2.fed) = 2
    /\ hrun1.digest = hrun2.digest
====
